---------------------------- MODULE Spec2Model ----------------------------
(***************************************************************************)
(* Model of raster_binary_validation (marxt/ABCRaster):                    *)
(*   validation.py : run, validate                                         *)
(*   worker.py     : run, validate (same body as validation.validate)      *)
(*                                                                         *)
(* A numpy array is a record [shape, v]: shape is the tuple of dimensions  *)
(* (one or two of them), v the cells in row-major order.  Broadcasting and *)
(* boolean-mask indexing follow numpy's rules.  Metric values are IEEE     *)
(* doubles abstracted to exact rationals plus nan and signed infinity.     *)
(***************************************************************************)
EXTENDS Integers, Sequences, FiniteSets, TLC

VARIABLES
    data,         \* caller-owned classification array (mutated by validate)
    val_data,     \* caller-owned reference array
    mask,         \* caller-owned exclusion array, or None
    data_nodata,  \* nodata sentinel passed for data
    val_nodata,   \* nodata sentinel passed for val_data
    dtype,        \* element type of the input arrays: "uint8" or "int64"
    pre,          \* data as it was when the last validate call started
    out,          \* what the last validate call returned (or raised)
    prev,         \* what the call before it returned
    calls,        \* number of validate calls made on these arrays
    impl,         \* which module's run is executing: "validation", "worker", "lib"
    ext,          \* extension of v_val_data_filepath
    ex_given,     \* ex_filepath is not None
    csv_given,    \* out_csv_filename is not None
    delete_tmp,   \* delete_tmp_files
    pc,           \* position inside run
    io,           \* sequence of I/O events run has performed
    diff_file,    \* the difference map written by run, or None
    csv_file,     \* the metrics written to the csv file by run, or None
    err           \* exception run terminated with, or "none"

vars == <<data, val_data, mask, data_nodata, val_nodata, dtype, pre, out, prev,
          calls, impl, ext, ex_given, csv_given, delete_tmp, pc, io, diff_file,
          csv_file, err>>

runvars == <<impl, ext, ex_given, csv_given, delete_tmp, pc, io, diff_file,
             csv_file, err>>

(***************************************************************************)
(* Bounds of the model.                                                    *)
(***************************************************************************)
MaxCells == 2
MaxDim == 2
MaxCalls == 2
MaxRunCells == 2

(***************************************************************************)
(* Program constants.                                                      *)
(***************************************************************************)
InvalidCode == 255
AltNodata == 2

None == [none |-> TRUE]
NoResult == [err |-> "nocall"]

Sentinels == {InvalidCode, AltNodata}
DTypes == {"uint8", "int64"}

(***************************************************************************)
(* numpy arrays                                                            *)
(***************************************************************************)
Arr(shape, v) == [shape |-> shape, v |-> v]

Prod(shape) == IF Len(shape) = 1 THEN shape[1] ELSE shape[1] * shape[2]

\* shape with ones prepended up to two dimensions (numpy aligns shapes on the right)
Pad2(shape) == IF Len(shape) = 2 THEN shape ELSE <<1, shape[1]>>

CanBroadcast(s1, s2) ==
    LET p == Pad2(s1)
        q == Pad2(s2)
    IN  \A k \in 1..2 : p[k] = q[k] \/ p[k] = 1 \/ q[k] = 1

BroadcastShape(s1, s2) ==
    LET p == Pad2(s1)
        q == Pad2(s2)
        d(k) == IF p[k] = 1 THEN q[k] ELSE p[k]
    IN  IF Len(s1) = 2 \/ Len(s2) = 2 THEN <<d(1), d(2)>> ELSE <<d(2)>>

\* the cell of array a that numpy pairs with flat position f of a result of shape S
At(a, S, f) ==
    LET P == Pad2(S)
        p == Pad2(a.shape)
        i == ((f - 1) \div P[2]) + 1
        j == ((f - 1) % P[2]) + 1
        ii == IF p[1] = 1 THEN 1 ELSE i
        jj == IF p[2] = 1 THEN 1 ELSE j
    IN  a.v[(ii - 1) * p[2] + jj]

\* a[b] with b a boolean array is legal when b's dimensions match a's leading ones
BoolIndexOK(ashape, bshape) ==
    /\ Len(bshape) <= Len(ashape)
    /\ \A k \in 1..Len(bshape) : bshape[k] = ashape[k]

\* TRUE when boolean index b selects flat position f of an array of shape ashape
Selected(ashape, b, f) ==
    IF Len(b.shape) = Len(ashape)
    THEN b.v[f]
    ELSE b.v[((f - 1) \div ashape[2]) + 1]

\* a[b] = x
SetWhere(a, b, x) ==
    Arr(a.shape, [f \in 1..Len(a.v) |-> IF Selected(a.shape, b, f) THEN x ELSE a.v[f]])

\* a == x, elementwise
EqScalar(a, x) == Arr(a.shape, [f \in 1..Len(a.v) |-> a.v[f] = x])

\* a != x, elementwise
NeScalar(a, x) == Arr(a.shape, [f \in 1..Len(a.v) |-> a.v[f] # x])

\* integer arithmetic of the arrays' element type
Wrap(x, dt) == IF dt = "uint8" THEN x % 256 ELSE x


(***************************************************************************)
(* Scalars: the numpy.int64 counts and the float64 values derived from     *)
(* them.  A float is [k, n, d]: "num" is the rational n/d in lowest terms  *)
(* (d > 0), "inf" has n = 1 or -1, "nan" is not-a-number, "pow" is         *)
(* 0.5^(n/d) (a value of math.exp that is no rational), and "raise" stands *)
(* for an exception raised while computing the value.                      *)
(***************************************************************************)
Abs(x) == IF x < 0 THEN -x ELSE x

RECURSIVE GCD(_, _)
GCD(a, b) == IF b = 0 THEN a ELSE GCD(b, a % b)

NaN == [k |-> "nan", n |-> 0, d |-> 0]
Inf(s) == [k |-> "inf", n |-> s, d |-> 0]
Raise == [k |-> "raise", n |-> 0, d |-> 0]

\* the rational n/d, d # 0
Num(n, d) ==
    LET g == GCD(Abs(n), Abs(d))
        s == IF d < 0 THEN -1 ELSE 1
    IN  [k |-> "num", n |-> (s * n) \div g, d |-> (s * d) \div g]

Zero == Num(0, 1)
One == Num(1, 1)
Sign(x) == IF x < 0 THEN -1 ELSE 1

\* Python int / int: ZeroDivisionError on a zero divisor
PyIntDiv(a, b) == IF b = 0 THEN Raise ELSE Num(a, b)

\* numpy.int64 / numpy.int64 (true_divide): a zero divisor gives nan or inf
\* with a RuntimeWarning, never an exception
IDiv(a, b) ==
    IF b # 0 THEN Num(a, b)
    ELSE IF a = 0 THEN NaN ELSE Inf(Sign(a))

\* float64 - float64
FSub(x, y) ==
    IF x.k = "raise" \/ y.k = "raise" THEN Raise
    ELSE IF x.k = "nan" \/ y.k = "nan" THEN NaN
    ELSE IF x.k = "inf" /\ y.k = "inf" THEN (IF x.n = y.n THEN NaN ELSE x)
    ELSE IF x.k = "inf" THEN x
    ELSE IF y.k = "inf" THEN Inf(-(y.n))
    ELSE Num(x.n * y.d - y.n * x.d, x.d * y.d)

\* float64 / float64
FDiv(x, y) ==
    IF x.k = "raise" \/ y.k = "raise" THEN Raise
    ELSE IF x.k = "nan" \/ y.k = "nan" THEN NaN
    ELSE IF x.k = "inf" /\ y.k = "inf" THEN NaN
    ELSE IF x.k = "inf" THEN Inf(x.n * Sign(y.n))
    ELSE IF y.k = "inf" THEN Zero
    ELSE IF y.n = 0 THEN (IF x.n = 0 THEN NaN ELSE Inf(Sign(x.n)))
    ELSE Num(x.n * y.d, x.d * y.n)

\* P = math.exp(FP / ((TP + FN) / math.log(0.5)))
\* (TP + FN) / log(0.5) is -0.0 when TP + FN = 0; FP / -0.0 is nan for FP = 0
\* and -inf otherwise; exp(-inf) = 0.0, exp(nan) = nan, exp(-0.0) = 1.0
Penalization(TP, FN, FP) ==
    IF TP + FN = 0 THEN (IF FP = 0 THEN NaN ELSE Zero)
    ELSE IF FP = 0 THEN One
    ELSE [k |-> "pow", n |-> Num(FP, TP + FN).n, d |-> Num(FP, TP + FN).d]

\* SR = PA - (1 - P)
SuccessRate(PA, P) ==
    IF PA.k = "raise" \/ P.k = "raise" THEN Raise
    ELSE IF PA.k = "nan" \/ P.k = "nan" THEN NaN
    ELSE IF P.k = "pow" THEN [k |-> "sum", n |-> FSub(PA, One), d |-> P]
    ELSE FSub(PA, FSub(One, P))

\* np.sum(res == code)
Count(res, code) == Cardinality({f \in 1..Len(res.v) : res.v[f] = code})

\* lines 186-196 of validate
Metrics(TP, TN, FN, FP) ==
    LET N  == TP + TN + FP + FN
        Po == IDiv(TP + TN, N)
        Pe == IDiv((TP + FN) * (TP + FP) + (FP + TN) * (FN + TN), N * N)
        PA == IDiv(TP, TP + FN)
        P  == Penalization(TP, FN, FP)
    IN  [A   |-> Po,
         Pe  |-> Pe,
         K   |-> FDiv(FSub(Po, Pe), FSub(One, Pe)),
         UA  |-> IDiv(TP, TP + FP),
         PA  |-> PA,
         CSI |-> IDiv(TP, TP + FP + FN),
         F1  |-> IDiv(2 * TP, 2 * TP + FN + FP),
         Ce  |-> IDiv(FP, FP + TP),
         Oe  |-> IDiv(FN, FN + TP),
         P   |-> P,
         SR  |-> SuccessRate(PA, P)]

MetricNames == {"A", "K", "UA", "PA", "CSI", "F1", "Ce", "Oe", "SR"}

(***************************************************************************)
(* validate(data, val_data, mask, data_nodata, val_nodata)                 *)
(***************************************************************************)
\* an exception leaves validate: data is as it was when the statement failed
Raised(e, line, d) == [err |-> e, line |-> line, data |-> d]

\* res = 1 + (2 * val_data) - data: the operands exchanged
RawResSwapped(d, v, dt) ==
    LET S == BroadcastShape(d.shape, v.shape)
    IN  Arr(S, [f \in 1..Prod(S) |-> Wrap(1 + (2 * At(v, S, f)) - At(d, S, f), dt)])

\* res = 1 + data - val_data: the factor 2 forgotten
RawResNoDouble(d, v, dt) ==
    LET S == BroadcastShape(d.shape, v.shape)
    IN  Arr(S, [f \in 1..Prod(S) |-> Wrap(1 + At(d, S, f) - At(v, S, f), dt)])

\* res = 1 + (2 * data) - val_data
RawRes(d, v, dt) ==
    LET S == BroadcastShape(d.shape, v.shape)
    IN  Arr(S, [f \in 1..Prod(S) |-> Wrap(1 + (2 * At(d, S, f)) - At(v, S, f), dt)])

\* mask == 1
MaskEq1Inverted(m) == EqScalar(m, 0)

MaskEq1(m) == EqScalar(m, 1)

\* res[mask == 1] = 255
ApplyMaskResDropped(res, m) == res

ApplyMaskRes(res, m) == SetWhere(res, MaskEq1(m), InvalidCode)

\* data[mask == 1] = 255
ApplyMaskData(d, m) == SetWhere(d, MaskEq1(m), InvalidCode)

\* valid = np.logical_and(val_data != 255, data != 255)
ValidIndex(v, d) ==
    LET S == BroadcastShape(v.shape, d.shape)
        a == NeScalar(v, InvalidCode)
        b == NeScalar(d, InvalidCode)
    IN  Arr(S, [f \in 1..Prod(S) |-> At(a, S, f) /\ At(b, S, f)])

\* lines 177-209: validity index, counts, metrics, return
Finish(res, d, v) ==
    LET TP == Count(res, 2)
        TN == Count(res, 1)
        FN == Count(res, 0)
        FP == Count(res, 3)
        M  == Metrics(TP, TN, FN, FP)
    IN  IF \E x \in MetricNames : M[x].k = "raise"
        THEN Raised("ZeroDivisionError", 186, d)
        ELSE [err |-> "none", line |-> 209, data |-> d, res |-> res,
              valid |-> ValidIndex(v, d),
              TP |-> TP, TN |-> TN, FN |-> FN, FP |-> FP, M |-> M]

\* lines 174-176: the exclusion mask
Exclude(res, d, v, m) ==
    IF m = None THEN Finish(res, d, v)
    ELSE IF ~BoolIndexOK(res.shape, m.shape) THEN Raised("IndexError", 175, d)
    ELSE IF ~BoolIndexOK(d.shape, m.shape) THEN Raised("IndexError", 176, d)
    ELSE Finish(ApplyMaskRes(res, m), ApplyMaskData(d, m), v)

validate(d, v, m, dn, vn, dt) ==
    IF ~CanBroadcast(d.shape, v.shape) THEN Raised("ValueError", 170, d)
    ELSE LET res0 == RawRes(d, v, dt)
         IN  IF ~BoolIndexOK(res0.shape, d.shape) THEN Raised("IndexError", 171, d)
             ELSE LET res1 == SetWhere(res0, EqScalar(d, dn), InvalidCode)
                  IN  IF ~BoolIndexOK(res1.shape, v.shape) THEN Raised("IndexError", 172, d)
                      ELSE Exclude(SetWhere(res1, EqScalar(v, vn), InvalidCode), d, v, m)


(***************************************************************************)
(* A caller of the library: it owns the arrays and calls validate on them, *)
(* possibly again on the arrays as the previous call left them.            *)
(***************************************************************************)
\* the arrays of shape S with cells in C
Arrays(S, C) == {Arr(S, v) : v \in [1..Prod(S) -> C]}

MaskOptions(S) == {None} \cup Arrays(S, {0, 1})

Shapes1D == {<<n>> : n \in 0..MaxCells}

ShapesAny == {<<n>> : n \in 1..MaxDim} \cup {<<r, c>> : r \in 1..MaxDim, c \in 1..MaxDim}

LibIdle ==
    /\ impl = "lib" /\ ext = "" /\ ex_given = FALSE /\ csv_given = FALSE
    /\ delete_tmp = FALSE /\ pc = "lib" /\ io = <<>> /\ diff_file = None
    /\ csv_file = None /\ err = "none"

\* aligned in-domain inputs: equal shapes, data in {0, 1, data_nodata},
\* val_data in {0, 1, val_nodata}, mask absent or in {0, 1}
Init ==
    /\ data_nodata \in Sentinels
    /\ val_nodata \in Sentinels
    /\ dtype \in DTypes
    /\ \E S \in Shapes1D :
          /\ data \in Arrays(S, {0, 1, data_nodata})
          /\ val_data \in Arrays(S, {0, 1, val_nodata})
          /\ mask \in MaskOptions(S)
    /\ pre = data
    /\ out = NoResult
    /\ prev = NoResult
    /\ calls = 0
    /\ LibIdle

\* binary inputs of any shapes, aligned or not, default sentinels
InitShapes ==
    /\ data_nodata = InvalidCode
    /\ val_nodata = InvalidCode
    /\ dtype \in DTypes
    /\ \E S \in ShapesAny : data \in Arrays(S, {0, 1})
    /\ \E S \in ShapesAny : val_data \in Arrays(S, {0, 1})
    /\ \E S \in ShapesAny : mask \in MaskOptions(S)
    /\ pre = data
    /\ out = NoResult
    /\ prev = NoResult
    /\ calls = 0
    /\ LibIdle

\* res, valid, ... = validate(data, val_data, mask, data_nodata, val_nodata)
CallValidate ==
    /\ pc = "lib"
    /\ calls < MaxCalls
    /\ out' = validate(data, val_data, mask, data_nodata, val_nodata, dtype)
    /\ data' = out'.data
    /\ pre' = data
    /\ prev' = out
    /\ calls' = calls + 1
    /\ UNCHANGED <<val_data, mask, data_nodata, val_nodata, dtype>>
    /\ UNCHANGED runvars

Next == CallValidate

Spec == Init /\ [][Next]_vars

SpecShapes == InitShapes /\ [][Next]_vars


(***************************************************************************)
(* run: the orchestration of validation.py and of worker.py.  The grids    *)
(* the file readers and the rasterizer return are drawn when they are      *)
(* read; they are aligned with the classification grid.                    *)
(***************************************************************************)
RunShapes == {<<n>> : n \in 1..MaxRunCells}

Extensions == {".shp", ".tif", ".gpkg", ".txt"}

InitRun ==
    /\ impl \in {"validation", "worker"}
    /\ ext \in Extensions
    /\ ex_given \in BOOLEAN
    /\ csv_given \in BOOLEAN
    /\ delete_tmp \in BOOLEAN
    /\ dtype \in DTypes
    /\ data_nodata = InvalidCode
    /\ val_nodata = InvalidCode
    /\ data = None /\ val_data = None /\ mask = None /\ pre = None
    /\ out = NoResult /\ prev = NoResult /\ calls = 0
    /\ pc = "start" /\ io = <<>> /\ diff_file = None /\ csv_file = None
    /\ err = "none"

\* res = res.astype(np.uint8); res[~idx] = 255
DifferenceRaster(r) ==
    LET res == Arr(r.res.shape, [f \in 1..Len(r.res.v) |-> r.res.v[f] % 256])
        nidx == Arr(r.valid.shape, [f \in 1..Len(r.valid.v) |-> ~r.valid.v[f]])
    IN  SetWhere(res, nidx, InvalidCode)

\* the row of validation measures
Measures(r) == [x \in MetricNames |-> r.M[x]]

\* validation.run lines 60-71: load the classification result and the exclusion layer
VLoad ==
    /\ impl = "validation" /\ pc = "start"
    /\ \E S \in RunShapes :
          /\ data' \in Arrays(S, {0, 1, InvalidCode})
          /\ mask' \in IF ex_given THEN Arrays(S, {0, 1}) ELSE {None}
    /\ io' = io \o <<"read_data">> \o (IF ex_given THEN <<"read_ex">> ELSE <<>>)
    /\ pc' = "ref"
    /\ UNCHANGED <<val_data, data_nodata, val_nodata, dtype, pre, out, prev, calls,
                   impl, ext, ex_given, csv_given, delete_tmp, diff_file, csv_file, err>>

\* validation.run lines 73-94: the reference data, by file extension
VReference ==
    /\ impl = "validation" /\ pc = "ref"
    /\ IF ext = ".shp"
       THEN /\ val_data' \in Arrays(data.shape, {0, 1, InvalidCode})
            /\ io' = io \o <<"open_ref", "rasterize">>
                        \o (IF delete_tmp THEN <<"delete_tmp">> ELSE <<>>)
            /\ pc' = "validate"
            /\ err' = err
       ELSE IF ext = ".tif"
       THEN /\ val_data' \in Arrays(data.shape, {0, 1, InvalidCode})
            /\ io' = io \o <<"read_ref">>
            /\ pc' = "validate"
            /\ err' = err
       ELSE /\ err' = "ValueError"
            /\ pc' = "failed"
            /\ UNCHANGED <<val_data, io>>
    /\ UNCHANGED <<data, mask, data_nodata, val_nodata, dtype, pre, out, prev, calls,
                   impl, ext, ex_given, csv_given, delete_tmp, diff_file, csv_file>>

\* validation.run lines 96-98
VValidate ==
    /\ impl = "validation" /\ pc = "validate"
    /\ out' = validate(data, val_data, mask, InvalidCode, InvalidCode, dtype)
    /\ data' = out'.data
    /\ pre' = data
    /\ prev' = out
    /\ calls' = calls + 1
    /\ io' = io \o <<"validate">>
    /\ pc' = IF out'.err = "none" THEN "write" ELSE "failed"
    /\ err' = out'.err
    /\ UNCHANGED <<val_data, mask, data_nodata, val_nodata, dtype,
                   impl, ext, ex_given, csv_given, delete_tmp, diff_file, csv_file>>

\* validation.run lines 100-105: write difference map
VWrite ==
    /\ impl = "validation" /\ pc = "write"
    /\ diff_file' = DifferenceRaster(out)
    /\ io' = io \o <<"write_diff">>
    /\ pc' = "csv"
    /\ UNCHANGED <<data, val_data, mask, data_nodata, val_nodata, dtype, pre, out, prev,
                   calls, impl, ext, ex_given, csv_given, delete_tmp, csv_file, err>>

\* validation.run lines 107-124: write csv summary, return the measures
VCsv ==
    /\ impl = "validation" /\ pc = "csv"
    /\ csv_file' = IF csv_given THEN Measures(out) ELSE csv_file
    /\ io' = io \o (IF csv_given THEN <<"write_csv">> ELSE <<>>)
    /\ pc' = "done"
    /\ UNCHANGED <<data, val_data, mask, data_nodata, val_nodata, dtype, pre, out, prev,
                   calls, impl, ext, ex_given, csv_given, delete_tmp, diff_file, err>>

\* worker.run lines 43-49: open the reference with OGR, read the classification
\* result and the exclusion layer
WOpen ==
    /\ impl = "worker" /\ pc = "start"
    /\ \E S \in RunShapes :
          /\ data' \in Arrays(S, {0, 1, InvalidCode})
          /\ mask' \in IF ex_given THEN Arrays(S, {0, 1}) ELSE {None}
    /\ io' = io \o <<"open_ref", "read_data">>
                \o (IF ex_given THEN <<"read_ex">> ELSE <<>>)
    /\ pc' = "ref"
    /\ UNCHANGED <<val_data, data_nodata, val_nodata, dtype, pre, out, prev, calls,
                   impl, ext, ex_given, csv_given, delete_tmp, diff_file, csv_file, err>>

\* worker.run lines 51-54: rasterize whatever OGR opened; the extension is not
\* looked at.  A file OGR cannot rasterize makes the collaborator fail.
WRasterize ==
    /\ impl = "worker" /\ pc = "ref"
    /\ io' = io \o <<"rasterize">>
    /\ \E ok \in (IF ext = ".shp" THEN {TRUE} ELSE BOOLEAN) :
          IF ok
          THEN /\ val_data' \in Arrays(data.shape, {0, 1, InvalidCode})
               /\ pc' = "validate"
               /\ err' = err
          ELSE /\ val_data' = val_data
               /\ pc' = "failed"
               /\ err' = "IOFailure"
    /\ UNCHANGED <<data, mask, data_nodata, val_nodata, dtype, pre, out, prev, calls,
                   impl, ext, ex_given, csv_given, delete_tmp, diff_file, csv_file>>

\* worker.run lines 56-58
WValidate ==
    /\ impl = "worker" /\ pc = "validate"
    /\ out' = validate(data, val_data, mask, InvalidCode, InvalidCode, dtype)
    /\ data' = out'.data
    /\ pre' = data
    /\ prev' = out
    /\ calls' = calls + 1
    /\ io' = io \o <<"validate">>
    /\ pc' = IF out'.err = "none" THEN "write" ELSE "failed"
    /\ err' = out'.err
    /\ UNCHANGED <<val_data, mask, data_nodata, val_nodata, dtype,
                   impl, ext, ex_given, csv_given, delete_tmp, diff_file, csv_file>>

\* worker.run lines 60-63: save results
WSave ==
    /\ impl = "worker" /\ pc = "write"
    /\ diff_file' = DifferenceRaster(out)
    /\ io' = io \o <<"write_diff">>
    /\ pc' = "csv"
    /\ UNCHANGED <<data, val_data, mask, data_nodata, val_nodata, dtype, pre, out, prev,
                   calls, impl, ext, ex_given, csv_given, delete_tmp, csv_file, err>>

\* worker.run lines 65-71: the csv file is always written
WCsv ==
    /\ impl = "worker" /\ pc = "csv"
    /\ csv_file' = Measures(out)
    /\ io' = io \o <<"write_csv">>
    /\ pc' = "done"
    /\ UNCHANGED <<data, val_data, mask, data_nodata, val_nodata, dtype, pre, out, prev,
                   calls, impl, ext, ex_given, csv_given, delete_tmp, diff_file, err>>

NextRun ==
    \/ VLoad
    \/ VReference
    \/ VValidate
    \/ VWrite
    \/ VCsv
    \/ WOpen
    \/ WRasterize
    \/ WValidate
    \/ WSave
    \/ WCsv

SpecRun == InitRun /\ [][NextRun]_vars


(***************************************************************************)
(* Properties                                                              *)
(***************************************************************************)
Returned == calls >= 1 /\ out.err = "none"

Cells == 1..Len(pre.v)

Binary(a) == \A f \in 1..Len(a.v) : a.v[f] \in {0, 1}

Masked(f) == mask # None /\ mask.v[f] = 1

\* the confusion code of a pair of binary cells
ConfusionCode(d, r) ==
    CASE d = 1 /\ r = 1 -> 2
      [] d = 0 /\ r = 0 -> 1
      [] d = 0 /\ r = 1 -> 0
      [] d = 1 /\ r = 0 -> 3

\* C1: for equal-shape grids whose cells are all 0 or 1, without mask, every cell
\* gets the code 2 (1,1), 1 (0,0), 0 (0,1) or 3 (1,0) of its (data, reference)
\* pair, TP+TN+FP+FN is the number of cells and ValidMask is true everywhere.
C1_BinaryCodes ==
    (calls >= 1 /\ mask = None /\ Binary(pre) /\ Binary(val_data)) =>
        /\ out.err = "none"
        /\ \A f \in Cells : out.res.v[f] = ConfusionCode(pre.v[f], val_data.v[f])
        /\ out.TP + out.TN + out.FP + out.FN = Len(pre.v)
        /\ \A f \in Cells : out.valid.v[f]

C1_Witness ==
    /\ Returned /\ mask = None /\ Binary(pre) /\ Binary(val_data)
    /\ out.TP = 1 /\ out.FP = 1

\* C2: at every cell where data == data_nodata or reference == val_nodata,
\* whatever the configured sentinels are, the difference code is 255 and
\* ValidMask is false.
C2_NodataInvalid ==
    Returned =>
        \A f \in Cells :
            (pre.v[f] = data_nodata \/ val_data.v[f] = val_nodata) =>
                out.res.v[f] = InvalidCode /\ ~out.valid.v[f]

\* C3: with a mask, every cell with mask == 1 gets code 255 whatever its data and
\* reference are, and TP, TN, FP, FN are the counts over the unmasked cells alone.
Unmasked(d, r) ==
    {f \in Cells : /\ mask.v[f] # 1
                   /\ pre.v[f] # data_nodata /\ val_data.v[f] # val_nodata
                   /\ pre.v[f] = d /\ val_data.v[f] = r}

C3_MaskExcludes ==
    (Returned /\ mask # None) =>
        /\ \A f \in Cells : mask.v[f] = 1 => out.res.v[f] = InvalidCode
        /\ out.TP = Cardinality(Unmasked(1, 1))
        /\ out.TN = Cardinality(Unmasked(0, 0))
        /\ out.FN = Cardinality(Unmasked(0, 1))
        /\ out.FP = Cardinality(Unmasked(1, 0))

C3_Witness ==
    /\ Returned /\ mask # None /\ calls = 1
    /\ \E f \in Cells : mask.v[f] = 1 /\ pre.v[f] = 1 /\ val_data.v[f] = 1
    /\ out.TP = 1

\* C4: the difference map and ValidMask agree, for any sentinels: every
\* ValidMask-true cell carries a code in 0..3 and every ValidMask-false cell
\* carries 255.
C4_MapAgreesWithValid ==
    Returned =>
        /\ Cardinality({f \in Cells : out.valid.v[f] /\ out.res.v[f] \in 0..3})
              = Cardinality({f \in Cells : out.valid.v[f]})
        /\ \A f \in Cells : ~out.valid.v[f] => out.res.v[f] = InvalidCode

\* the value x is the ratio n/d, d # 0
IsRatio(x, n, d) == x.k = "num" /\ x.n * d = n * x.d

\* x is nan when d = 0 and the ratio n/d otherwise
RatioOrNaN(x, n, d) == IF d = 0 THEN x = NaN ELSE IsRatio(x, n, d)

\* the returned metrics: undefined exactly on a zero denominator, else their value
ReturnedMetricsDefined ==
    LET TP == out.TP
        TN == out.TN
        FN == out.FN
        FP == out.FP
        N  == TP + TN + FP + FN
        X  == (TP + FN) * (TP + FP) + (FP + TN) * (FN + TN)
        M  == out.M
    IN  /\ RatioOrNaN(M.A, TP + TN, N)
        /\ RatioOrNaN(M.UA, TP, TP + FP)
        /\ RatioOrNaN(M.PA, TP, TP + FN)
        /\ RatioOrNaN(M.CSI, TP, TP + FP + FN)
        /\ RatioOrNaN(M.F1, 2 * TP, 2 * TP + FN + FP)
        /\ RatioOrNaN(M.Ce, FP, FP + TP)
        /\ RatioOrNaN(M.Oe, FN, FN + TP)
        /\ IF N = 0 \/ N * N = X THEN M.K = NaN
           ELSE IsRatio(M.K, (TP + TN) * N - X, N * N - X)
        /\ IF TP + FN = 0 THEN M.SR = NaN
           ELSE IF FP = 0 THEN IsRatio(M.SR, TP, TP + FN)
           ELSE /\ M.SR.k = "sum"
                /\ IsRatio(M.SR.n, -FN, TP + FN)
                /\ M.SR.d.k = "pow" /\ M.SR.d.n * (TP + FN) = FP * M.SR.d.d

\* reference all val_nodata: all codes 255, all counts zero, every ratio undefined
AllNodataDegenerate ==
    (Len(pre.v) > 0 /\ \A f \in Cells : val_data.v[f] = val_nodata) =>
        /\ \A f \in Cells : out.res.v[f] = InvalidCode
        /\ out.TP = 0 /\ out.TN = 0 /\ out.FN = 0 /\ out.FP = 0
        /\ \A x \in MetricNames : out.M[x] = NaN

\* C5 as stated: no exception; every metric, the penalization included, is
\* undefined (nan) when its denominator is zero and has its value otherwise.
C5_Original ==
    calls >= 1 =>
        /\ out.err = "none"
        /\ ReturnedMetricsDefined
        /\ AllNodataDegenerate
        /\ (out.TP + out.FN = 0 => out.M.P = NaN)

\* C5 amended: no exception; every returned metric (UA, PA, Ce, Oe, CSI, F1, SR,
\* K, A) is nan when a denominator it is computed from is zero and has its
\* defined value otherwise; the penalization P, which is printed and not
\* returned, is nan for TP+FN = 0 only if FP = 0 too, and is 0 when FP > 0.
C5_DegenerateMetrics ==
    calls >= 1 =>
        /\ out.err = "none"
        /\ ReturnedMetricsDefined
        /\ AllNodataDegenerate
        /\ (out.TP + out.FN = 0 => out.M.P = (IF out.FP = 0 THEN NaN ELSE Zero))

C5_Witness ==
    /\ Returned
    /\ out.TP + out.FP = 0 /\ out.M.UA = NaN
    /\ out.TP + out.FN > 0 /\ out.M.PA = Zero

\* C6: when data, reference and mask do not all have the same shape, validate
\* fails with an error, returns nothing and leaves data unmodified.
SameShapes ==
    /\ pre.shape = val_data.shape
    /\ mask # None => mask.shape = pre.shape

C6_ShapeMismatchFails ==
    (calls >= 1 /\ ~SameShapes) => (out.err # "none" /\ out.data = pre)

\* C7: in run, with a reference extension that is neither .shp nor .tif, the run
\* fails with the unsupported-format error before the reference is opened, read
\* or rasterized, before validate is called and before anything is written.
Done(e) == \E i \in 1..Len(io) : io[i] = e

C7_UnsupportedFormat ==
    (impl # "lib" /\ ext \notin {".shp", ".tif"}) =>
        /\ \A e \in {"open_ref", "read_ref", "rasterize", "validate",
                     "write_diff", "write_csv"} : ~Done(e)
        /\ pc \notin {"validate", "write", "csv", "done"}
        /\ pc = "failed" => err = "ValueError"
        /\ diff_file = None /\ csv_file = None

\* C8: a second call of validate on the same arrays, as the first call left
\* them, returns the same difference map, ValidMask, counts and metrics.
C8_Idempotent ==
    (calls >= 2 /\ out.err = "none" /\ prev.err = "none") =>
        /\ out.res = prev.res
        /\ out.valid = prev.valid
        /\ <<out.TP, out.TN, out.FN, out.FP>> = <<prev.TP, prev.TN, prev.FN, prev.FP>>
        /\ out.M = prev.M

C8_Witness ==
    /\ calls = 2 /\ out.err = "none" /\ prev.err = "none"
    /\ data_nodata # InvalidCode
    /\ mask # None
    /\ \E f \in Cells : mask.v[f] = 1 /\ val_data.v[f] = 1 /\ pre.v[f] = InvalidCode
    /\ out.TP >= 1

\* C9 as stated: perfect agreement on a non-empty binary grid without mask gives
\* FP = FN = 0 and UA = PA = CSI = F1 = A = K = 1.
PerfectAgreement ==
    /\ calls >= 1 /\ mask = None /\ Len(pre.v) > 0
    /\ Binary(pre) /\ pre = val_data

C9_Original ==
    PerfectAgreement =>
        /\ out.err = "none"
        /\ out.FP = 0 /\ out.FN = 0
        /\ \A x \in {"UA", "PA", "CSI", "F1", "A", "K"} : out.M[x] = One

\* C9 amended: perfect agreement gives FP = FN = 0 and A = 1; UA, PA, CSI and F1
\* are 1 when some cell is 1 and nan when no cell is; K is 1 when the grid holds
\* both a 0 and a 1 and nan when the grid is uniform.
C9_PerfectAgreement ==
    PerfectAgreement =>
        LET some1 == \E f \in Cells : pre.v[f] = 1
            some0 == \E f \in Cells : pre.v[f] = 0
        IN  /\ out.err = "none"
            /\ out.FP = 0 /\ out.FN = 0
            /\ out.M.A = One
            /\ \A x \in {"UA", "PA", "CSI", "F1"} :
                  out.M[x] = (IF some1 THEN One ELSE NaN)
            /\ out.M.K = (IF some1 /\ some0 THEN One ELSE NaN)

C9_Witness ==
    /\ PerfectAgreement /\ out.err = "none"
    /\ out.TP >= 1 /\ out.TN >= 1 /\ out.M.K = One

\* C10: validate changes its inputs only by setting each data cell with
\* mask == 1 to data_nodata; every other cell is as before the call.
C10_FrameEffect ==
    Returned =>
        \A f \in Cells :
            out.data.v[f] = (IF Masked(f) THEN data_nodata ELSE pre.v[f])

=============================================================================
